---- MODULE Spec2Model ----
(***************************************************************************)
(* The instantaneous-scheduling decision loop of the benchmark:            *)
(*   benchmarking/benchmark_schedulers.py   run_one_simulation, __main__   *)
(*   schedulers/sadcher.py                  SadcherScheduler and           *)
(*                                          StochasticILSadcherScheduler   *)
(*   schedulers/initialize_schedulers.py    create_scheduler               *)
(* The Simulation, the CachedBipartiteMatcher and the two assignment       *)
(* filters are imported by these files; they are modelled from their       *)
(* description in spec.md (sections 3, 4.1, 4.3, 4.4).                     *)
(*                                                                         *)
(* Rewards are integers in units of the positive floor (1e-6 = Floor).     *)
(* The call at benchmark_schedulers.py:34 passes a keyword model_name that *)
(* create_scheduler (initialize_schedulers.py:7-14) does not declare; the  *)
(* model follows the dispatch on the name (lines 15-42), which is what     *)
(* decides the scheduler the loop of lines 41-57 runs with.                *)
(***************************************************************************)
EXTENDS Integers, Sequences, FiniteSets, TLC

VARIABLES
    pc,                     \* position in the driver / run_one_simulation
    run,                    \* number of run_one_simulation calls started
    problem_instance,       \* [T_e, T_t] of the current run
    worst_case_makespan,    \* benchmark_schedulers.py:26
    sim,                    \* the Simulation object of the current run
    scheduler,              \* the scheduler object of the current run
    feasible,               \* benchmark_schedulers.py:39
    n_times,                \* len(current_run_computation_times)
    instantaneous_schedule, \* the schedule returned by the last call
    predicted_reward,       \* the reward matrix of the current call
    call,                   \* what the current / last call did
    matchers,               \* every CachedBipartiteMatcher constructed so far
    solves,                 \* every solve call made so far
    result,                 \* the tuple returned by the last finished run
    pure,                   \* input / output of the pure-function harness
    ops,                    \* the operations of the loop performed so far
    args,                   \* the command-line flags of the benchmark
    iteration,              \* iterations of the loop of line 113 started
    name_idx                \* elements of scheduler_names handled in this iteration

vars == <<pc, run, problem_instance, worst_case_makespan, sim, scheduler,
          feasible, n_times, instantaneous_schedule, predicted_reward,
          call, matchers, solves, result, pure, ops, args, iteration, name_idx>>

-----------------------------------------------------------------------------
(* Bounds of the model *)

NRobots == 2
NTasks == 2
MaxDur == 1
MaxTravel == 1
MaxRuns == 2
ZMax == 1
MaxIterations == 2

(* Program constants *)

Floor == 1
NegReward == -1000
RunStddev == 1

(* Indices into sim.tasks: the virtual start task, the real tasks, the     *)
(* virtual end task.  NoTask is Python's None.                             *)
StartTask == 0
NoTask == -1
NoMatcher == 0
DefaultCapacity == 1

EndTask == NTasks + 1
RealTasks == 1..NTasks
Tasks == 0..(NTasks + 1)
Robots == 1..NRobots

Max2(a, b) == IF a >= b THEN a ELSE b
Abs(a) == IF a >= 0 THEN a ELSE -a
SetMax(S) == CHOOSE x \in S : \A y \in S : y <= x
SetMin(S) == CHOOSE x \in S : \A y \in S : x <= y

RECURSIVE SumOver(_, _)
SumOver(f, S) ==
    IF S = {} THEN 0
    ELSE LET x == CHOOSE y \in S : TRUE IN f[x] + SumOver(f, S \ {x})

-----------------------------------------------------------------------------
(* Problem instances: an execution duration per real task (none for the    *)
(* sentinels) and one travel time between any two different locations.     *)

InstanceOf(dur, d) ==
    [T_e |-> [t \in Tasks |-> IF t \in RealTasks THEN dur[t] ELSE 0],
     T_t |-> [i \in Tasks |-> [j \in Tasks |-> IF i = j THEN 0 ELSE d]]]

ProblemInstances ==
    {InstanceOf(dur, d) : dur \in [RealTasks -> 1..MaxDur], d \in 0..MaxTravel}

(* benchmark_schedulers.py:26-28 *)
WorstCaseMakespan(inst) ==
    SumOver(inst.T_e, Tasks)
    + SumOver([t \in Tasks |-> SetMax({inst.T_t[t][j] : j \in Tasks})], Tasks)

-----------------------------------------------------------------------------
(* The Simulation (spec.md 3, 4.1) *)

NewSimulation ==
    [timestep     |-> 0,
     sim_done     |-> FALSE,
     makespan     |-> 0,
     available    |-> [r \in Robots |-> TRUE],
     current_task |-> [r \in Robots |-> NoTask],
     location     |-> [r \in Robots |-> StartTask],
     travel       |-> [r \in Robots |-> 0],
     exec         |-> [r \in Robots |-> 0],
     status       |-> [t \in Tasks |-> IF t = StartTask THEN "DONE" ELSE "PENDING"]]

Incomplete(s, t) == s.status[t] # "DONE"

(* The concurrency capacity of a task: the default, 1, for every task.    *)
Capacity(t) == DefaultCapacity

(* assign_tasks_to_robots: every named robot becomes busy and starts its   *)
(* travel-then-execution timer toward the named task.                      *)
AssignTasksToRobots(s, inst, sched) ==
    [s EXCEPT
       !.available    = [r \in Robots |-> IF r \in DOMAIN sched THEN FALSE ELSE @[r]],
       !.current_task = [r \in Robots |-> IF r \in DOMAIN sched THEN sched[r] ELSE @[r]],
       !.travel       = [r \in Robots |-> IF r \in DOMAIN sched
                                          THEN inst.T_t[s.location[r]][sched[r]] ELSE @[r]],
       !.exec         = [r \in Robots |-> IF r \in DOMAIN sched
                                          THEN inst.T_e[sched[r]] ELSE @[r]]]

(* One unit of simulated time. *)
Step(s) ==
    LET busy(r) == ~s.available[r]
        executing(r) == /\ busy(r)
                        /\ s.travel[r] = 0
                        /\ s.current_task[r] \in RealTasks
                        /\ s.status[s.current_task[r]] # "DONE"
        travel1 == [r \in Robots |->
                      IF busy(r) /\ s.travel[r] > 0 THEN s.travel[r] - 1 ELSE s.travel[r]]
        exec1 == [r \in Robots |->
                      IF executing(r) /\ s.exec[r] > 0 THEN s.exec[r] - 1 ELSE s.exec[r]]
        finished(r) == executing(r) /\ exec1[r] = 0
        released(r) == busy(r) /\ s.travel[r] = 0 /\ (finished(r) \/ ~executing(r))
        status1 == [t \in Tasks |->
                      IF \E r \in Robots : finished(r) /\ s.current_task[r] = t
                      THEN "DONE"
                      ELSE IF /\ t \in RealTasks
                              /\ s.status[t] = "PENDING"
                              /\ \E r \in Robots :
                                    busy(r) /\ s.current_task[r] = t /\ travel1[r] = 0
                      THEN "ACTIVE"
                      ELSE s.status[t]]
        done1 == \A t \in RealTasks : status1[t] = "DONE"
    IN  [timestep     |-> s.timestep + 1,
         sim_done     |-> done1,
         makespan     |-> IF done1 THEN s.timestep + 1 ELSE s.makespan,
         available    |-> [r \in Robots |-> s.available[r] \/ released(r)],
         current_task |-> [r \in Robots |-> IF released(r) THEN NoTask ELSE s.current_task[r]],
         location     |-> [r \in Robots |->
                             IF busy(r) /\ travel1[r] = 0 THEN s.current_task[r]
                             ELSE s.location[r]],
         travel       |-> travel1,
         exec         |-> [r \in Robots |-> IF released(r) THEN 0 ELSE exec1[r]],
         status       |-> status1]

DecisionPoint(s) == s.sim_done \/ \E r \in Robots : s.available[r]

(* step_until_next_decision_point: time advances, by at least one unit,    *)
(* until a robot is idle or the run is done.                               *)
RECURSIVE StepUntilNextDecisionPoint(_)
StepUntilNextDecisionPoint(s) ==
    LET s1 == Step(s)
    IN  IF DecisionPoint(s1) THEN s1 ELSE StepUntilNextDecisionPoint(s1)

-----------------------------------------------------------------------------
(* create_scheduler (initialize_schedulers.py:7-42) and the constructors   *)
(* (sadcher.py:15-40, 184-193).                                            *)

SchedulerObject(cls, stddev) ==
    [cls |-> cls, stddev |-> stddev, bipartite_matcher |-> NoMatcher]

(* load_model_weights (sadcher.py:133-137) *)
CheckpointError(checkpoint_path) ==
    checkpoint_path = "None" \/ checkpoint_path = "not_a_string"

RewardGuided(cls) ==
    cls \in {"SadcherScheduler", "RLSadcherScheduler", "StochasticILSadcherScheduler"}

ClassOfName(name) ==
    IF name = "greedy" THEN "GreedyInstantaneousScheduler"
    ELSE IF name = "random_bipartite" THEN "RandomBipartiteMatchingScheduler"
    ELSE IF name = "sadcher" THEN "SadcherScheduler"
    ELSE IF name \in {"rl_sadcher", "rl_sadcher_sampling"} THEN "RLSadcherScheduler"
    ELSE IF name = "stochastic_IL_sadcher" THEN "StochasticILSadcherScheduler"
    ELSE "ValueError"

CreateScheduler(name, checkpoint_path, stddev) ==
    LET cls == ClassOfName(name)
    IN  IF cls = "ValueError" THEN SchedulerObject("ValueError", 0)
        ELSE IF RewardGuided(cls) /\ CheckpointError(checkpoint_path)
             THEN SchedulerObject("ValueError", 0)
        ELSE IF cls = "StochasticILSadcherScheduler" THEN SchedulerObject(cls, stddev)
        ELSE SchedulerObject(cls, 0)

(* isinstance(scheduler, SadcherScheduler), benchmark_schedulers.py:43 *)
IsSadcher(sch) == sch.cls \in {"SadcherScheduler", "StochasticILSadcherScheduler"}

(* The inputs run_one_simulation is called with. *)
SchedulerNameInputs == {"greedy", "sadcher", "stochastic_IL_sadcher", "stochastic_sadcher"}
CheckpointInputs == {"best_checkpoint.pt", "None"}

-----------------------------------------------------------------------------
(* SadcherScheduler.calculate_robot_assignment, sadcher.py:42-106 *)

(* sadcher.py:46 *)
AvailableRobots(s) == {r \in Robots : s.available[r]}

(* sadcher.py:47-49, as the set of its task indices *)
IncompleteTasks(s) == {t \in Tasks : Incomplete(s, t) /\ s.status[t] = "PENDING"}

(* sadcher.py:52 *)
EndGame(s) == Cardinality(IncompleteTasks(s)) = 1

(* Every robot of the simulation, available or not. *)
EveryRobot(s) == Robots

(* sadcher.py:53-54: the robots the shortcut assigns, and the task *)
ShortcutRobots(s) == AvailableRobots(s)
ShortcutTask(s) == SetMin(IncompleteTasks(s))
ShortcutAssignments(s) == [r \in ShortcutRobots(s) |-> ShortcutTask(s)]

(* sadcher.py:55: robot.current_task = incomplete_tasks[0] *)
ShortcutSim(s) ==
    [s EXCEPT !.current_task =
        [r \in Robots |-> IF r \in ShortcutRobots(s) THEN ShortcutTask(s) ELSE @[r]]]

(* sadcher.py:56: torch.zeros((n_robots, len(sim.tasks))) *)
ZeroReward == [r \in Robots |-> [i \in 1..(NTasks + 2) |-> 0]]

(* sadcher.py:112: sim.tasks[1:-2], as positions 1..len-3 of sim.tasks *)
TaskFeatureIndices == 1..(NTasks + 2 - 3)
NFeatures == Cardinality(TaskFeatureIndices)

(* What the reward model may return: one value per robot and task feature.  *)
OracleValues == {-1, 0, 2}
OracleOutputs == [Robots -> [1..NFeatures -> OracleValues]]
NormalDraws == [Robots -> [1..NFeatures -> (-ZMax)..ZMax]]

(* torch.clamp(x, min=1e-6), sadcher.py:68 *)
Clamp(m) == [r \in Robots |-> [i \in 1..Len(m[r]) |-> Max2(m[r][i], Floor)]]

(* torch.normal(mean, std) with the standard-normal draws z *)
Normal(m, std, z) == [r \in Robots |-> [i \in 1..Len(m[r]) |-> m[r][i] + std * z[r][i]]]

(* The sample is returned without the second clamp. *)
UnclampedSample(m, std, z) == Normal(m, std, z)

(* The sample is drawn with a fixed spread instead of self.stddev. *)
FixedSpreadSample(m, std, z) == Clamp(Normal(m, 1, z))

(* StochasticILSadcherScheduler.sample_rewards, sadcher.py:195-200 *)
StochasticSampleRewards(m, std, z) == Clamp(Normal(m, std, z))

(* sample_rewards of the scheduler's class, sadcher.py:174-175, 195-200 *)
SampleRewards(sch, m, z) ==
    IF sch.cls = "StochasticILSadcherScheduler"
    THEN StochasticSampleRewards(m, sch.stddev, z)
    ELSE m

(* sadcher.py:74-75: torch.cat((reward_start_end, m, reward_start_end), dim=1) *)
WithStartEnd(m) == [r \in Robots |-> <<NegReward>> \o m[r] \o <<NegReward>>]

(* sadcher.py:68-75: the matrix handed to the matcher *)
MatcherReward(sch, raw, z) == WithStartEnd(SampleRewards(sch, Clamp(raw), z))

(* A matcher is built at every call. *)
AlwaysNewMatcher(sch) == TRUE

(* sadcher.py:94 *)
NeedsNewMatcher(sch) == sch.bipartite_matcher = NoMatcher

-----------------------------------------------------------------------------
(* CachedBipartiteMatcher.solve and the assignment filters (spec.md 4.3,    *)
(* 4.4).  A solution is the 0/1 value of every (robot, task) pair.          *)

SolutionOf(S) == [p \in Robots \X Tasks |-> IF p \in S THEN 1 ELSE 0]
Selected(sol) == {p \in Robots \X Tasks : sol[p] = 1}

(* Any selection over the real tasks: the sentinel columns are excluded     *)
(* structurally; a solve stopped by its time budget returns its incumbent,  *)
(* and numerical artifacts may select a robot or a task more than once.     *)
RawSolutions == {SolutionOf(S) : S \in SUBSET (Robots \X RealTasks)}

(* The reward of a pair in the matrix of this decision point. *)
RewardAt(rew, r, t) == IF t + 1 <= Len(rew[r]) THEN rew[r][t + 1] ELSE NegReward

(* filter_redundant_assignments *)
FilterRedundantAssignments(sol, s) ==
    SolutionOf({p \in Selected(sol) :
        /\ s.current_task[p[1]] # p[2]
        /\ \A q \in Selected(sol) : q[2] = p[2] => p[1] <= q[1]})

(* p is ranked before q: higher reward first, then lower robot, lower task *)
Before(rew, p, q) ==
    \/ RewardAt(rew, p[1], p[2]) > RewardAt(rew, q[1], q[2])
    \/ /\ RewardAt(rew, p[1], p[2]) = RewardAt(rew, q[1], q[2])
       /\ \/ p[1] < q[1]
          \/ p[1] = q[1] /\ p[2] < q[2]

(* For every task the solution names, the capacity-many robots with the     *)
(* highest reward are taken, selected for the task or not.                  *)
BestRobotsPerTask(sol, s, rew) ==
    SolutionOf({p \in Robots \X {q[2] : q \in Selected(sol)} :
        Cardinality({r \in Robots : Before(rew, <<r, p[2]>>, p)}) < Capacity(p[2])})

(* filter_overassignments *)
FilterOverassignments(sol, s, rew) ==
    LET perTask == {p \in Selected(sol) :
                      Cardinality({q \in Selected(sol) :
                                      q[2] = p[2] /\ Before(rew, q, p)}) < Capacity(p[2])}
        perRobot == {p \in perTask :
                      \A q \in perTask : q[1] = p[1] /\ q # p => Before(rew, p, q)}
    IN  SolutionOf(perRobot)

(* The raw solution is used as it is. *)
UnfilteredSolution(sol, s, rew) == sol

(* sadcher.py:100-101 *)
FilteredSolution(sol, s, rew) ==
    FilterOverassignments(FilterRedundantAssignments(sol, s), s, rew)

(* sadcher.py:102-104: a later item of the dict overwrites an earlier one *)
RobotAssignments(sol) ==
    [r \in {p[1] : p \in Selected(sol)} |->
        SetMax({p[2] : p \in {q \in Selected(sol) : q[1] = r}})]

EmptySchedule == [r \in {} |-> NoTask]
NoReward == <<>>
NoCall == [path |-> "none", oracle |-> FALSE, constructed |-> FALSE, solved |-> FALSE]

(* What a scheduler that is no SadcherScheduler may return. *)
Schedules == UNION {[D -> Tasks] : D \in SUBSET Robots}

-----------------------------------------------------------------------------
(* run_one_simulation, benchmark_schedulers.py:25-59 *)

(* The bound is never found exceeded. *)
NeverExceeded(s, bound) == FALSE

(* The bound counts as exceeded as soon as it is reached. *)
BoundReached(s, bound) == s.timestep >= bound

(* benchmark_schedulers.py:53 *)
BoundExceeded(s, bound) == s.timestep > bound

(* The makespan of the simulation is returned as it is. *)
UncappedMakespan(s, bound) == s.makespan

(* benchmark_schedulers.py:54 *)
CappedMakespan(s, bound) == bound

(* No run overshoots the bound by more than one advance of the clock. *)
TimeCap == (NTasks * MaxDur + (NTasks + 2) * MaxTravel) + MaxTravel + MaxDur + 1

NoPure == [tag |-> "none"]

(* The calls of calculate_robot_assignment, assign_tasks_to_robots and      *)
(* step_until_next_decision_point made in the current run, and whether any  *)
(* decision point of the benchmark has been committed.                      *)
NoOps == [calculate |-> 0, assign |-> 0, step |-> 0, processed |-> FALSE]

(* The latency of the call is not recorded. *)
NotAppended(times) == times

(* benchmark_schedulers.py:48: current_run_computation_times.append(...) *)
Appended(times) == times + 1

(* argparse defaults, benchmark_schedulers.py:75-99 *)
DefaultArgs == [include_milp |-> FALSE, include_stochastic_sadcher |-> FALSE]
NoResult == [run |-> 0, makespan |-> 0, feasible |-> TRUE, n_times |-> 0]

Init ==
    /\ pc = "driver"
    /\ run = 0
    /\ problem_instance = InstanceOf([t \in RealTasks |-> 1], 0)
    /\ worst_case_makespan = 0
    /\ sim = NewSimulation
    /\ scheduler = SchedulerObject("None", 0)
    /\ feasible = TRUE
    /\ n_times = 0
    /\ instantaneous_schedule = EmptySchedule
    /\ predicted_reward = NoReward
    /\ call = NoCall
    /\ matchers = {}
    /\ solves = {}
    /\ result = NoResult
    /\ pure = NoPure
    /\ ops = NoOps
    /\ args = DefaultArgs
    /\ iteration = 0
    /\ name_idx = 0

(* benchmark_schedulers.py:25-40: the bound, the Simulation, the scheduler *)
RunOneSimulation(inst, name, path) ==
    /\ LET sch == CreateScheduler(name, path, RunStddev)
       IN  /\ problem_instance' = inst
           /\ worst_case_makespan' = WorstCaseMakespan(inst)
           /\ sim' = NewSimulation
           /\ scheduler' = sch
           /\ pc' = IF sch.cls = "ValueError" THEN "raised" ELSE "loop"
    /\ run' = run + 1
    /\ feasible' = TRUE
    /\ n_times' = 0
    /\ instantaneous_schedule' = EmptySchedule
    /\ predicted_reward' = NoReward
    /\ call' = NoCall
    /\ result' = NoResult
    /\ ops' = [ops EXCEPT !.calculate = 0, !.assign = 0, !.step = 0]

(* run_one_simulation called with any of its inputs *)
StartRunUpTo(runs) ==
    /\ pc = "driver"
    /\ run < runs
    /\ \E inst \in ProblemInstances, name \in SchedulerNameInputs, path \in CheckpointInputs :
         RunOneSimulation(inst, name, path)
    /\ UNCHANGED <<matchers, solves, pure, args, iteration, name_idx>>

(* benchmark_schedulers.py:41-48 with sadcher.py:42-58: the end-game shortcut *)
CalcShortcut ==
    /\ pc = "loop"
    /\ ~sim.sim_done
    /\ IsSadcher(scheduler)
    /\ EndGame(sim)
    /\ instantaneous_schedule' = ShortcutAssignments(sim)
    /\ sim' = ShortcutSim(sim)
    /\ predicted_reward' = ZeroReward
    /\ call' = [path |-> "shortcut", oracle |-> FALSE, constructed |-> FALSE,
                solved |-> FALSE]
    /\ n_times' = Appended(n_times)
    /\ ops' = [ops EXCEPT !.calculate = @ + 1]
    /\ pc' = "assign"
    /\ UNCHANGED <<run, problem_instance, worst_case_makespan, scheduler, feasible,
                   matchers, solves, result, pure, args, iteration, name_idx>>

(* sadcher.py:60-68: the features, the reward model, the clamp *)
CalcPredictReward ==
    /\ pc = "loop"
    /\ ~sim.sim_done
    /\ IsSadcher(scheduler)
    /\ ~EndGame(sim)
    /\ \E raw \in OracleOutputs : predicted_reward' = Clamp(raw)
    /\ call' = [path |-> "general", oracle |-> TRUE, constructed |-> FALSE,
                solved |-> FALSE]
    /\ pc' = "sample"
    /\ UNCHANGED <<run, problem_instance, worst_case_makespan, sim, scheduler, feasible,
                   n_times, instantaneous_schedule, matchers, solves, result, pure,
                   ops, args, iteration, name_idx>>

(* sadcher.py:71-75: sample_rewards, then the start and end columns *)
CalcSampleRewards ==
    /\ pc = "sample"
    /\ \E z \in NormalDraws :
         predicted_reward' = WithStartEnd(SampleRewards(scheduler, predicted_reward, z))
    /\ pc' = "solve"
    /\ UNCHANGED <<run, problem_instance, worst_case_makespan, sim, scheduler, feasible,
                   n_times, instantaneous_schedule, call, matchers, solves, result, pure,
                   ops, args, iteration, name_idx>>

(* sadcher.py:94-106 and benchmark_schedulers.py:45, 48: the matcher is     *)
(* built if there is none, solved, its solution filtered and returned.      *)
(* find_highest_non_idle_reward only reads the matrix.                      *)
CalcSolve ==
    /\ pc = "solve"
    /\ LET new == NeedsNewMatcher(scheduler)
           id == IF new THEN Cardinality(matchers) + 1 ELSE scheduler.bipartite_matcher
       IN  /\ scheduler' = [scheduler EXCEPT !.bipartite_matcher = id]
           /\ matchers' = IF new
                          THEN matchers \cup
                               {[id |-> id, run |-> run,
                                 first |-> ~\E s \in solves : s.run = run]}
                          ELSE matchers
           /\ solves' = solves \cup {[id |-> id, run |-> run]}
           /\ call' = [call EXCEPT !.constructed = new, !.solved = TRUE]
    /\ \E sol \in RawSolutions :
         instantaneous_schedule' =
            RobotAssignments(FilteredSolution(sol, sim, predicted_reward))
    /\ n_times' = Appended(n_times)
    /\ ops' = [ops EXCEPT !.calculate = @ + 1]
    /\ pc' = "assign"
    /\ UNCHANGED <<run, problem_instance, worst_case_makespan, sim, feasible,
                   predicted_reward, result, pure, args, iteration, name_idx>>

(* benchmark_schedulers.py:47-48: a scheduler that is no SadcherScheduler *)
CalcOther ==
    /\ pc = "loop"
    /\ ~sim.sim_done
    /\ ~IsSadcher(scheduler)
    /\ \E sched \in Schedules : instantaneous_schedule' = sched
    /\ call' = [path |-> "other", oracle |-> FALSE, constructed |-> FALSE,
                solved |-> FALSE]
    /\ n_times' = Appended(n_times)
    /\ ops' = [ops EXCEPT !.calculate = @ + 1]
    /\ pc' = "assign"
    /\ UNCHANGED <<run, problem_instance, worst_case_makespan, sim, scheduler, feasible,
                   predicted_reward, matchers, solves, result, pure,
                   args, iteration, name_idx>>

(* benchmark_schedulers.py:50; the schedule and the reward matrix of this    *)
(* iteration are not read again.                                            *)
Assign ==
    /\ pc = "assign"
    /\ sim' = AssignTasksToRobots(sim, problem_instance, instantaneous_schedule)
    /\ instantaneous_schedule' = EmptySchedule
    /\ predicted_reward' = NoReward
    /\ call' = NoCall
    /\ ops' = [ops EXCEPT !.assign = @ + 1, !.processed = TRUE]
    /\ pc' = "step"
    /\ UNCHANGED <<run, problem_instance, worst_case_makespan, scheduler, feasible,
                   n_times, matchers, solves, result, pure, args, iteration, name_idx>>

(* benchmark_schedulers.py:51 *)
StepUntil ==
    /\ pc = "step"
    /\ sim.timestep < TimeCap
    /\ sim' = StepUntilNextDecisionPoint(sim)
    /\ ops' = [ops EXCEPT !.step = @ + 1]
    /\ pc' = "check"
    /\ UNCHANGED <<run, problem_instance, worst_case_makespan, scheduler, feasible,
                   n_times, instantaneous_schedule, predicted_reward, call, matchers,
                   solves, result, pure, args, iteration, name_idx>>

(* benchmark_schedulers.py:53-57 *)
BoundCheck ==
    /\ pc = "check"
    /\ IF BoundExceeded(sim, worst_case_makespan)
       THEN /\ sim' = [sim EXCEPT !.makespan = CappedMakespan(sim, worst_case_makespan)]
            /\ feasible' = FALSE
            /\ pc' = "break"
       ELSE /\ pc' = "loop"
            /\ UNCHANGED <<sim, feasible>>
    /\ UNCHANGED <<run, problem_instance, worst_case_makespan, scheduler, n_times,
                   instantaneous_schedule, predicted_reward, call, matchers, solves,
                   result, pure, ops, args, iteration, name_idx>>

(* benchmark_schedulers.py:41, 59: the loop ends, the tuple is returned *)
Return ==
    /\ \/ pc = "loop" /\ sim.sim_done
       \/ pc = "break"
    /\ result' = [run |-> run, makespan |-> sim.makespan, feasible |-> feasible,
                  n_times |-> n_times]
    /\ pc' = "driver"
    /\ UNCHANGED <<run, problem_instance, worst_case_makespan, sim, scheduler, feasible,
                   n_times, instantaneous_schedule, predicted_reward, call, matchers,
                   solves, pure, ops, args, iteration, name_idx>>

StartRun == StartRunUpTo(MaxRuns)

Next ==
    \/ StartRun
    \/ CalcShortcut
    \/ CalcPredictReward
    \/ CalcSampleRewards
    \/ CalcSolve
    \/ CalcOther
    \/ Assign
    \/ StepUntil
    \/ BoundCheck
    \/ Return

Spec == Init /\ [][Next]_vars

(* The loop is sequential code: a step that can be taken is taken. *)
RunStep ==
    \/ CalcShortcut
    \/ CalcPredictReward
    \/ CalcSampleRewards
    \/ CalcSolve
    \/ CalcOther
    \/ Assign
    \/ StepUntil
    \/ BoundCheck
    \/ Return

(* One run from its start to its return; a run reads nothing of the runs    *)
(* before it.                                                               *)
StartOneRun == StartRunUpTo(1)

NextLive == StartOneRun \/ RunStep

SpecLive == Init /\ [][NextLive]_vars /\ WF_vars(RunStep)

-----------------------------------------------------------------------------
(* The benchmark driver, benchmark_schedulers.py:62-160 *)

(* benchmark_schedulers.py:101-106 *)
SchedulerNames(a) ==
    <<"greedy", "sadcher", "random_bipartite">>
        \o (IF a.include_milp THEN <<"milp">> ELSE << >>)
        \o (IF a.include_stochastic_sadcher THEN <<"stochastic_sadcher">> ELSE << >>)

(* Every combination of --include_milp and --include_stochastic_sadcher *)
ArgsInputs == [include_milp : BOOLEAN, include_stochastic_sadcher : BOOLEAN]

(* benchmark_schedulers.py:71-73: a string, always *)
MainCheckpointPath == "best_checkpoint.pt"

(* The element of scheduler_names the loop of line 121 is at. *)
SchedulerName == SchedulerNames(args)[name_idx]
NamesLeft == iteration > 0 /\ name_idx < Len(SchedulerNames(args))

InitMain ==
    /\ pc = "driver"
    /\ run = 0
    /\ problem_instance = InstanceOf([t \in RealTasks |-> 1], 0)
    /\ worst_case_makespan = 0
    /\ sim = NewSimulation
    /\ scheduler = SchedulerObject("None", 0)
    /\ feasible = TRUE
    /\ n_times = 0
    /\ instantaneous_schedule = EmptySchedule
    /\ predicted_reward = NoReward
    /\ call = NoCall
    /\ matchers = {}
    /\ solves = {}
    /\ result = NoResult
    /\ pure = NoPure
    /\ ops = NoOps
    /\ args \in ArgsInputs
    /\ iteration = 0
    /\ name_idx = 0

(* benchmark_schedulers.py:113-119: the next iteration, its problem instance *)
GenerateProblemInstance ==
    /\ pc = "driver"
    /\ iteration < MaxIterations
    /\ iteration = 0 \/ name_idx = Len(SchedulerNames(args))
    /\ iteration' = iteration + 1
    /\ name_idx' = 0
    /\ problem_instance' \in ProblemInstances
    /\ UNCHANGED <<pc, run, worst_case_makespan, sim, scheduler, feasible, n_times,
                   instantaneous_schedule, predicted_reward, call, matchers, solves,
                   result, pure, ops, args>>

(* benchmark_schedulers.py:121-129: "milp" is solved without a simulation run *)
MilpScheduling ==
    /\ pc = "driver"
    /\ NamesLeft
    /\ SchedulerNames(args)[name_idx + 1] = "milp"
    /\ name_idx' = name_idx + 1
    /\ UNCHANGED <<pc, run, problem_instance, worst_case_makespan, sim, scheduler,
                   feasible, n_times, instantaneous_schedule, predicted_reward, call,
                   matchers, solves, result, pure, ops, args, iteration>>

(* benchmark_schedulers.py:131-155: every other name is passed to           *)
(* run_one_simulation; for "stochastic_sadcher" this is the first call of   *)
(* the loop of line 134.                                                    *)
MainRunOneSimulation ==
    /\ pc = "driver"
    /\ NamesLeft
    /\ SchedulerNames(args)[name_idx + 1] # "milp"
    /\ RunOneSimulation(problem_instance, SchedulerNames(args)[name_idx + 1],
                        MainCheckpointPath)
    /\ name_idx' = name_idx + 1
    /\ UNCHANGED <<matchers, solves, pure, args, iteration>>

NextMain ==
    \/ GenerateProblemInstance
    \/ MilpScheduling
    \/ MainRunOneSimulation
    \/ RunStep

SpecMain == InitMain /\ [][NextMain]_vars

-----------------------------------------------------------------------------
(* The pure functions of the scheduler, applied to inputs drawn from        *)
(* bounded sets.                                                            *)

SimWithLinks(cur) == [NewSimulation EXCEPT !.current_task = cur]

FilterRewards ==
    {WithStartEnd([r \in Robots |-> [i \in 1..NFeatures |-> Floor]]),
     WithStartEnd([r \in Robots |-> [i \in 1..NFeatures |-> r + i]])}

FilterInputs ==
    {[tag |-> "filter_in", sol |-> sol, cur |-> cur, rew |-> rew] :
        sol \in RawSolutions, cur \in [Robots -> Tasks \cup {NoTask}], rew \in FilterRewards}

RewardInputs ==
    {[tag |-> "reward_in", raw |-> raw, stddev |-> std] :
        raw \in OracleOutputs, std \in {0, RunStddev}}

InitPure ==
    /\ pc = "driver"
    /\ run = 0
    /\ problem_instance = InstanceOf([t \in RealTasks |-> 1], 0)
    /\ worst_case_makespan = 0
    /\ sim = NewSimulation
    /\ scheduler = SchedulerObject("None", 0)
    /\ feasible = TRUE
    /\ n_times = 0
    /\ instantaneous_schedule = EmptySchedule
    /\ predicted_reward = NoReward
    /\ call = NoCall
    /\ matchers = {}
    /\ solves = {}
    /\ result = NoResult
    /\ pure \in FilterInputs \cup RewardInputs
    /\ ops = NoOps
    /\ args = DefaultArgs
    /\ iteration = 0
    /\ name_idx = 0

(* Each filter applied once and twice (sadcher.py:100-101). *)
ApplyFilters ==
    /\ pure.tag = "filter_in"
    /\ LET s == SimWithLinks(pure.cur)
           red1 == FilterRedundantAssignments(pure.sol, s)
           over1 == FilterOverassignments(pure.sol, s, pure.rew)
       IN  pure' = [tag |-> "filter_out", sol |-> pure.sol, cur |-> pure.cur,
                    rew |-> pure.rew,
                    red1 |-> red1,
                    red2 |-> FilterRedundantAssignments(red1, s),
                    over1 |-> over1,
                    over2 |-> FilterOverassignments(over1, s, pure.rew)]
    /\ UNCHANGED <<pc, run, problem_instance, worst_case_makespan, sim, scheduler,
                   feasible, n_times, instantaneous_schedule, predicted_reward, call,
                   matchers, solves, result, ops, args, iteration, name_idx>>

AllPairs == SolutionOf(Robots \X RealTasks)

(* The same standard-normal draw for every entry. *)
UniformDraws == {[r \in Robots |-> [i \in 1..NFeatures |-> k]] : k \in (-ZMax)..ZMax}

(* The matrix and the schedule of the two variants for one oracle output    *)
(* (sadcher.py:68-75, 100-106).                                             *)
ApplySampleRewards ==
    /\ pure.tag = "reward_in"
    /\ \E z \in UniformDraws :
         LET det == MatcherReward(SchedulerObject("SadcherScheduler", 0), pure.raw, z)
             sto == MatcherReward(
                       SchedulerObject("StochasticILSadcherScheduler", pure.stddev),
                       pure.raw, z)
         IN  pure' = [tag |-> "reward_out", raw |-> pure.raw, stddev |-> pure.stddev,
                      z |-> z, det |-> det, sto |-> sto,
                      det_schedule |->
                         RobotAssignments(FilteredSolution(AllPairs, NewSimulation, det)),
                      sto_schedule |->
                         RobotAssignments(FilteredSolution(AllPairs, NewSimulation, sto))]
    /\ UNCHANGED <<pc, run, problem_instance, worst_case_makespan, sim, scheduler,
                   feasible, n_times, instantaneous_schedule, predicted_reward, call,
                   matchers, solves, result, ops, args, iteration, name_idx>>

NextPure == ApplyFilters \/ ApplySampleRewards

SpecPure == InitPure /\ [][NextPure]_vars

-----------------------------------------------------------------------------
(* The run has returned its tuple to the driver. *)
Returned == pc = "driver" /\ result.run > 0

(* C1: every run of run_one_simulation returns a makespan with              *)
(* 0 <= makespan <= worst_case_makespan, whether the loop ended because     *)
(* sim.sim_done became true or through the bound check.                     *)
C1_MakespanWithinBound ==
    Returned => 0 <= result.makespan /\ result.makespan <= worst_case_makespan

(* A run whose last advance of the clock both finished the tasks and passed *)
(* the bound: the returned makespan is the bound.                           *)
C1_Witness ==
    /\ Returned
    /\ sim.sim_done
    /\ sim.timestep > worst_case_makespan
    /\ result.makespan = worst_case_makespan
    /\ worst_case_makespan > 0

(* The robots a schedule names for task t. *)
RobotsNamedFor(sched, t) == {r \in DOMAIN sched : sched[r] = t}

(* A schedule of a SadcherScheduler is about to be committed. *)
SadcherCommit == pc = "assign" /\ IsSadcher(scheduler)

C4_OnlyEndSentinelLeft ==
    SadcherCommit /\ call.path = "shortcut" =>
        /\ \A t \in RealTasks : sim.status[t] = "DONE"
        /\ \A r \in DOMAIN instantaneous_schedule : instantaneous_schedule[r] = EndTask

C6_FeasibleFlag ==
    /\ [](Returned =>
            /\ result.feasible = ~(sim.timestep > worst_case_makespan)
            /\ ~result.feasible => result.makespan = worst_case_makespan
            /\ result.feasible => sim.sim_done /\ sim.timestep <= worst_case_makespan)
    /\ [][pc = "check" /\ sim.timestep > worst_case_makespan =>
            pc' = "break" /\ ~feasible' /\ sim'.timestep = sim.timestep]_vars
    /\ [][pc = "break" =>
            /\ pc' = "driver"
            /\ sim' = sim
            /\ n_times' = n_times
            /\ result' = [run |-> run, makespan |-> worst_case_makespan,
                          feasible |-> FALSE, n_times |-> n_times]]_vars

(* An infeasible run of a SadcherScheduler, returned with tasks unfinished. *)
C6_Witness ==
    /\ Returned
    /\ ~result.feasible
    /\ ~sim.sim_done
    /\ IsSadcher(scheduler)
    /\ result.makespan = worst_case_makespan

(* C7: within one run at most one CachedBipartiteMatcher is constructed, at *)
(* the first general-path decision point of the run; every solve of the run *)
(* is on that instance, and no instance is solved in two runs.              *)
C7_OneMatcherPerRun ==
    /\ \A m1, m2 \in matchers : m1.run = m2.run => m1 = m2
    /\ \A m \in matchers : m.first
    /\ \A s \in solves : \E m \in matchers : m.id = s.id /\ m.run = s.run
    /\ \A s1, s2 \in solves : s1.id = s2.id => s1.run = s2.run
    /\ IsSadcher(scheduler) /\ scheduler.bipartite_matcher # NoMatcher =>
          \E m \in matchers : m.id = scheduler.bipartite_matcher /\ m.run = run

(* The second run solves again on the matcher it built itself. *)
C7_Witness ==
    /\ Cardinality(matchers) = 2
    /\ pc = "assign"
    /\ call.solved
    /\ ~call.constructed
    /\ run = 2

(* The matrix of the current call is the one handed to the matcher. *)
AtMatcher == pc = "solve"

(* C8: on the general path, deterministic or stochastic, the reward matrix  *)
(* passed to the matcher has -1000 in its first and last column for every   *)
(* robot, and every entry of every other column is at least the floor.      *)
C8_RewardMatrixShape ==
    AtMatcher =>
        \A r \in Robots :
            /\ Len(predicted_reward[r]) = NFeatures + 2
            /\ predicted_reward[r][1] = NegReward
            /\ predicted_reward[r][Len(predicted_reward[r])] = NegReward
            /\ \A i \in 2..(Len(predicted_reward[r]) - 1) : predicted_reward[r][i] >= Floor

(* A stochastic matrix with an entry at the floor and one above it. *)
C8_Witness ==
    /\ AtMatcher
    /\ NFeatures >= 1
    /\ scheduler.cls = "StochasticILSadcherScheduler"
    /\ \E r \in Robots : predicted_reward[r][2] = Floor
    /\ \E r \in Robots : predicted_reward[r][2] > Floor + 1

(* C9: with spread 0 the stochastic strategy passes to the matcher exactly  *)
(* the matrix the deterministic strategy passes, and returns the same       *)
(* schedule.                                                                *)
C9_ZeroSpreadIsDeterministic ==
    pure.tag = "reward_out" /\ pure.stddev = 0 =>
        /\ pure.sto = pure.det
        /\ pure.sto_schedule = pure.det_schedule

(* Spread 0, non-zero draws, an oracle value below the floor. *)
C9_Witness ==
    /\ pure.tag = "reward_out"
    /\ pure.stddev = 0
    /\ \A r \in Robots : \A i \in 1..NFeatures : pure.z[r][i] # 0
    /\ \E r \in Robots : \E i \in 1..NFeatures : pure.raw[r][i] < 0
    /\ \E r \in Robots : \E i \in 1..NFeatures : pure.raw[r][i] > Floor

(* C10: filter_redundant_assignments applied twice gives what it gives      *)
(* applied once, and so does filter_overassignments; neither selects a      *)
(* pair its input did not select.                                           *)
C10_FiltersIdempotent ==
    pure.tag = "filter_out" =>
        /\ pure.red2 = pure.red1
        /\ pure.over2 = pure.over1
        /\ Selected(pure.red1) \subseteq Selected(pure.sol)
        /\ Selected(pure.over1) \subseteq Selected(pure.sol)

(* Both filters drop pairs, and not the same ones. *)
C10_Witness ==
    /\ pure.tag = "filter_out"
    /\ pure.red1 # pure.sol
    /\ pure.over1 # pure.sol
    /\ pure.red1 # pure.over1
    /\ Selected(pure.red1) # {}
    /\ Selected(pure.over1) # {}

(* create_scheduler has raised its ValueError (initialize_schedulers.py:42, *)
(* sadcher.py:133-137).                                                     *)
Raised == pc = "raised"

(* C11: when a configuration error is raised, no decision point of any run  *)
(* of the benchmark has been processed, and the run it is raised in has     *)
(* made no call of calculate_robot_assignment and advanced no time.         *)
C11_RaisedBeforeAnyRun ==
    Raised =>
        /\ ~ops.processed
        /\ ops.calculate = 0
        /\ sim.timestep = 0

(* C12: at every decision point calculate_robot_assignment comes first,     *)
(* then assign_tasks_to_robots with the schedule just computed, then        *)
(* step_until_next_decision_point; one schedule is committed per time       *)
(* advance, none twice, and the latency series has one entry per call.      *)
C12_DecisionPointOrder ==
    /\ [](/\ n_times = ops.calculate
          /\ pc \in {"loop", "sample", "solve", "check", "break"} =>
                ops.assign = ops.calculate /\ ops.step = ops.assign
          /\ pc = "assign" => ops.calculate = ops.assign + 1 /\ ops.step = ops.assign
          /\ pc = "step" => ops.assign = ops.calculate /\ ops.assign = ops.step + 1
          /\ Returned =>
                /\ result.n_times = ops.calculate
                /\ ops.assign = ops.calculate
                /\ ops.step = ops.calculate)
    /\ [][ops'.assign = ops.assign + 1 =>
            /\ pc = "assign"
            /\ \A r \in DOMAIN instantaneous_schedule :
                  /\ sim'.current_task[r] = instantaneous_schedule[r]
                  /\ ~sim'.available[r]]_vars

(* A run has ended DONE after three decision points, each with one call,   *)
(* one commit and one advance of the clock.                                 *)
C12_Witness ==
    /\ Returned
    /\ result.n_times = 3
    /\ ops.step = 3
    /\ sim.sim_done

(* C13: calculate_robot_assignment leaves the simulation state unchanged on *)
(* every path: from its call to its return no robot's availability or       *)
(* current-task link and no task's status changes.                          *)
C13_CalcLeavesSimUnchanged ==
    [][(pc \in {"loop", "sample", "solve"} /\ pc' \in {"sample", "solve", "assign"}) =>
          sim' = sim]_vars

(* C14: no name the driver passes to run_one_simulation, under any          *)
(* combination of the command-line flags, is a name create_scheduler does   *)
(* not know: the ValueError for an unknown scheduler is never reached.      *)
C14_DriverNamesAccepted ==
    Raised /\ name_idx > 0 => ClassOfName(SchedulerName) # "ValueError"

(* C15: on the general path the task features cover every real task and no *)
(* sentinel, and the reward matrix passed to the matcher has one column per *)
(* element of sim.tasks, column i holding the rewards of task i.            *)
C15_OneColumnPerTask ==
    AtMatcher =>
        /\ TaskFeatureIndices = RealTasks
        /\ \A r \in Robots : Len(predicted_reward[r]) = Cardinality(Tasks)

====
